---- MODULE Spec2Model ----
(***************************************************************************)
(* Model of streamlit_app.py: one Streamlit script that loads a CSV,       *)
(* renders four charts and offers a date-aware price estimator.            *)
(*                                                                         *)
(* A Streamlit script is re-executed from top to bottom after every widget *)
(* interaction; each action below is one interaction followed by the whole *)
(* script run it triggers.  `rendered` is the sequence of elements the     *)
(* latest run put on the page, `est` the estimator's locals of that run.   *)
(*                                                                         *)
(* Numbers: multipliers are kept in hundredths (1.30 is 130), the base     *)
(* price as twice the median (so that an even-count midpoint is integral), *)
(* and the estimate as an exact fraction price_num / price_den.            *)
(* Dates are proleptic Gregorian ordinals, as datetime.date.toordinal().   *)
(***************************************************************************)
EXTENDS Integers, Sequences, FiniteSets, TLC

\* ---------------------------------------------------------------- bounds
MaxRows == 2
MaxShift == 1
MaxNights == 2
CalDays == 731

\* ------------------------------------------------------------- constants
WeekendBump == 130
SummerBump == 120
HolidayBump == 140
Unit == 100

DATA_PATH == "cleaned_data.csv"
NaN == "NaN"
None == "None"

\* ------------------------------------------------------- calendar (dates)
IsLeap(y) == (y % 4 = 0) /\ ((y % 100 # 0) \/ (y % 400 = 0))

DaysBeforeMonth == <<0, 31, 59, 90, 120, 151, 181, 212, 243, 273, 304, 334>>

DaysBeforeYear(y) ==
    LET p == y - 1 IN p * 365 + (p \div 4) - (p \div 100) + (p \div 400)

\* date(y, m, d).toordinal()
Ord(y, m, d) ==
    DaysBeforeYear(y) + DaysBeforeMonth[m]
        + (IF m > 2 /\ IsLeap(y) THEN 1 ELSE 0) + d

\* d.month of the date with ordinal n
Month(n) ==
    LET n0   == n - 1
        r400 == n0 % 146097
        n100 == r400 \div 36524
        r100 == r400 % 36524
        n4   == r100 \div 1461
        r4   == r100 % 1461
        n1   == r4 \div 365
        doy  == r4 % 365
        leap == (n1 = 3) /\ ((n4 # 24) \/ (n100 = 3))
        mGuess == (doy + 50) \div 32
        preceding == DaysBeforeMonth[mGuess]
                        + (IF mGuess > 2 /\ leap THEN 1 ELSE 0)
    IN  IF n1 = 4 \/ n100 = 4 THEN 12
        ELSE IF preceding > doy THEN mGuess - 1 ELSE mGuess

\* d.weekday(): Monday is 0, Sunday is 6
Weekday(n) == (n + 6) % 7

\* --------------------------------------------------------------- dataset
CityOrder == <<"A", "B">>

RoomOrder == <<"Entire home", "Private room">>

Range(s) == {s[i] : i \in 1..Len(s)}

Cities == Range(CityOrder) \cup {NaN}

RoomTypes == Range(RoomOrder) \cup {NaN}

Prices == {50, 100}

SeqsUpTo(S, n) == UNION {[1..k -> S] : k \in 0..n}

RowsFor(cols) ==
    [city      : IF "city" \in cols THEN Cities ELSE {NaN},
     room_type : IF "room_type" \in cols THEN RoomTypes ELSE {NaN},
     price     : Prices]

ColumnSets == {{"price"} \cup c : c \in SUBSET {"city", "room_type"}}

\* df[col] == val : a missing cell (NaN) equals nothing, nothing equals None
Eq(cell, val) == cell # NaN /\ val # None /\ cell = val

\* sorted(df[col].dropna().unique())
CityOptionsKeepNaN(d) ==
    LET present == {d[i].city : i \in 1..Len(d)}
    IN  SelectSeq(CityOrder, LAMBDA c : c \in present)
            \o (IF NaN \in present THEN <<NaN>> ELSE <<>>)

CityOptions(d) ==
    LET present == {d[i].city : i \in 1..Len(d)} \ {NaN}
    IN  SelectSeq(CityOrder, LAMBDA c : c \in present)

RoomTypeOptions(d) ==
    LET present == {d[i].room_type : i \in 1..Len(d)} \ {NaN}
    IN  SelectSeq(RoomOrder, LAMBDA r : r \in present)

\* st.selectbox: the session's value, the first option by default,
\* None when there are no options
DefaultOf(options) == IF Len(options) = 0 THEN None ELSE options[1]

\* ------------------------------------------------------------ aggregates
PriceCol(d) == [i \in 1..Len(d) |-> d[i].price]

RECURSIVE Insert(_, _)
Insert(s, x) ==
    IF Len(s) = 0 THEN <<x>>
    ELSE IF x <= Head(s) THEN <<x>> \o s
    ELSE <<Head(s)>> \o Insert(Tail(s), x)

RECURSIVE SortPrices(_)
SortPrices(s) == IF Len(s) = 0 THEN <<>> ELSE Insert(SortPrices(Tail(s)), Head(s))

\* Series.median(), as twice its value; NaN on an empty series
MedianDiff(p) ==
    LET s == SortPrices(p)
        n == Len(s)
    IN  IF n = 0 THEN [nan |-> TRUE, twice |-> 0]
        ELSE IF n % 2 = 1 THEN [nan |-> FALSE, twice |-> 2 * s[(n + 1) \div 2]]
        ELSE [nan |-> FALSE, twice |-> s[n \div 2] - s[n \div 2 + 1]]

Median(p) ==
    LET s == SortPrices(p)
        n == Len(s)
    IN  IF n = 0 THEN [nan |-> TRUE, twice |-> 0]
        ELSE IF n % 2 = 1 THEN [nan |-> FALSE, twice |-> 2 * s[(n + 1) \div 2]]
        ELSE [nan |-> FALSE, twice |-> s[n \div 2] + s[n \div 2 + 1]]

\* df["price"].quantile(0.99) in hundredths (linear interpolation)
price_cap(d) ==
    LET s   == SortPrices(PriceCol(d))
        n   == Len(s)
        pos == 99 * (n - 1)
        lo  == pos \div 100 + 1
        fr  == pos % 100
    IN  IF n = 0 THEN [nan |-> TRUE, hundredths |-> 0]
        ELSE [nan |-> FALSE,
              hundredths |-> IF fr = 0 THEN 100 * s[lo]
                             ELSE 100 * s[lo] + fr * (s[lo + 1] - s[lo])]

\* ------------------------------------------------------------- estimator
\* 1) base price: the fallback chain of subsets
SubsetNoCityStep(d, cv, rv) ==
    LET exact == SelectSeq(d, LAMBDA r : Eq(r.city, cv) /\ Eq(r.room_type, rv))
    IN  IF Len(exact) > 0 THEN [step |-> 1, rows |-> exact]
        ELSE [step |-> 3, rows |-> d]

Subset(d, cv, rv) ==
    LET exact    == SelectSeq(d, LAMBDA r : Eq(r.city, cv) /\ Eq(r.room_type, rv))
        cityOnly == SelectSeq(d, LAMBDA r : Eq(r.city, cv))
    IN  IF Len(exact) > 0 THEN [step |-> 1, rows |-> exact]
        ELSE IF Len(cityOnly) > 0 THEN [step |-> 2, rows |-> cityOnly]
        ELSE [step |-> 3, rows |-> d]

\* pd.date_range(check_in, check_out - timedelta(days=1))
StayDatesInclusive(ci, co) == [i \in 1..(IF co >= ci THEN co - ci + 1 ELSE 0) |-> ci + i - 1]

stay_dates(ci, co) == [i \in 1..(IF co > ci THEN co - ci ELSE 0) |-> ci + i - 1]

Times(m, f) == (m * f) \div Unit

DateMultiplierSatSun(d) ==
    LET m0 == Unit
        m1 == IF Weekday(d) \in {5, 6} THEN Times(m0, WeekendBump) ELSE m0
        m2 == IF Month(d) \in {6, 7, 8} THEN Times(m1, SummerBump) ELSE m1
        m3 == IF Month(d) = 12 THEN Times(m2, HolidayBump) ELSE m2
    IN  m3

date_multiplier(d) ==
    LET m0 == Unit
        m1 == IF Weekday(d) \in {4, 5} THEN Times(m0, WeekendBump) ELSE m0
        m2 == IF Month(d) \in {6, 7, 8} THEN Times(m1, SummerBump) ELSE m1
        m3 == IF Month(d) = 12 THEN Times(m2, HolidayBump) ELSE m2
    IN  m3

RECURSIVE SumSeq(_)
SumSeq(s) == IF Len(s) = 0 THEN 0 ELSE Head(s) + SumSeq(Tail(s))

\* avg_mult as the fraction num / den
AvgMultNoCheckIn(mults) ==
    IF Len(mults) > 1
    THEN [zero_branch |-> FALSE, num |-> SumSeq(Tail(mults)), den |-> Unit * (Len(mults) - 1)]
    ELSE IF Len(mults) = 1
    THEN [zero_branch |-> FALSE, num |-> mults[1], den |-> Unit]
    ELSE [zero_branch |-> TRUE, num |-> Unit, den |-> Unit]

avg_mult(mults) ==
    IF Len(mults) > 0
    THEN [zero_branch |-> FALSE, num |-> SumSeq(mults), den |-> Unit * Len(mults)]
    ELSE [zero_branch |-> TRUE, num |-> Unit, den |-> Unit]

NoEstimate ==
    [shown |-> FALSE, step |-> 0, base_nan |-> FALSE, base_twice |-> 0,
     mults |-> <<>>, zero_branch |-> FALSE, avg_num |-> 0, avg_den |-> 1,
     price_num |-> 0, price_den |-> 1, nights |-> 0]

\* the body of the button handler: the locals of one estimation
Estimate(d, cv, rv, ci, co) ==
    LET sub   == Subset(d, cv, rv)
        base  == Median(PriceCol(sub.rows))
        mults == [i \in 1..Len(stay_dates(ci, co)) |->
                     date_multiplier(stay_dates(ci, co)[i])]
        avg   == avg_mult(mults)
    IN  [shown |-> TRUE, step |-> sub.step,
         base_nan |-> base.nan, base_twice |-> base.twice,
         mults |-> mults, zero_branch |-> avg.zero_branch,
         avg_num |-> avg.num, avg_den |-> avg.den,
         price_num |-> base.twice * avg.num, price_den |-> 2 * avg.den,
         nights |-> co - ci]

\* ------------------------------------------------------------ the script
VARIABLES fileState, df, columns, today,
          city_val, room_type_val, check_in, check_out, button,
          rendered, est

vars == <<fileState, df, columns, today,
          city_val, room_type_val, check_in, check_out, button,
          rendered, est>>

HasPredictor(fs, cols) == fs = "ok" /\ "city" \in cols /\ "room_type" \in cols

LoadError(fs) ==
    IF fs = "missing" THEN "error: Could not find '" \o DATA_PATH \o "'"
    ELSE "error: read_csv exception"

RoomChartsSkipSilently(cols) ==
    IF "room_type" \in cols
    THEN <<"heading_2", "chart_room_bar", "heading_3", "chart_room_pie">>
    ELSE <<>>

RoomCharts(cols) ==
    IF "room_type" \in cols
    THEN <<"heading_2", "chart_room_bar", "heading_3", "chart_room_pie">>
    ELSE <<"info_room_type">>

CityChart(cols) ==
    IF "city" \in cols
    THEN <<"heading_4", "chart_city_bar">>
    ELSE <<"info_city">>

PredictorNoValidation(cols, ci, co, btn) ==
    IF "city" \in cols /\ "room_type" \in cols
    THEN <<"select_city", "select_room_type", "date_check_in", "date_check_out">>
            \o <<"button">> \o (IF btn THEN <<"success_estimate">> ELSE <<>>)
    ELSE <<"info_predictor">>

Predictor(cols, ci, co, btn) ==
    IF "city" \in cols /\ "room_type" \in cols
    THEN <<"select_city", "select_room_type", "date_check_in", "date_check_out">>
            \o (IF co <= ci THEN <<"warning_dates">>
                ELSE <<"button">> \o (IF btn THEN <<"success_estimate">> ELSE <<>>))
    ELSE <<"info_predictor">>

\* what a run renders once the data is loaded
Body(cols, ci, co, btn) ==
    <<"row_summary", "table_preview", "subheader_charts",
      "heading_1", "chart_price_hist">>
        \o RoomCharts(cols) \o CityChart(cols)
        \o <<"subheader_predictor">> \o Predictor(cols, ci, co, btn)

PageNoStop(fs, cols, ci, co, btn) ==
    <<"title">> \o (IF fs # "ok" THEN <<LoadError(fs)>> ELSE <<>>)
        \o Body(cols, ci, co, btn)

\* everything one top-to-bottom run puts on the page
Page(fs, cols, ci, co, btn) ==
    <<"title">> \o
    (IF fs # "ok" THEN <<LoadError(fs)>> ELSE Body(cols, ci, co, btn))

\* the estimator's locals in that run
RunEstimate(fs, d, cols, cv, rv, ci, co, btn) ==
    IF "success_estimate" \in Range(Page(fs, cols, ci, co, btn))
    THEN Estimate(d, cv, rv, ci, co)
    ELSE NoEstimate

\* one script run with the given widget state
Run(cv, rv, ci, co, btn) ==
    /\ city_val' = cv
    /\ room_type_val' = rv
    /\ check_in' = ci
    /\ check_out' = co
    /\ button' = btn
    /\ rendered' = Page(fileState, columns, ci, co, btn)
    /\ est' = RunEstimate(fileState, df, columns, cv, rv, ci, co, btn)
    /\ UNCHANGED <<fileState, df, columns, today>>

\* the first run of a session: every widget returns its default
FirstRun(fs, d, cols, t) ==
    /\ fileState = fs
    /\ df = d
    /\ columns = cols
    /\ today = t
    /\ city_val = (IF HasPredictor(fs, cols) THEN DefaultOf(CityOptions(d)) ELSE None)
    /\ room_type_val = (IF HasPredictor(fs, cols) THEN DefaultOf(RoomTypeOptions(d)) ELSE None)
    /\ check_in = t
    /\ check_out = t + 1
    /\ button = FALSE
    /\ rendered = Page(fs, cols, t, t + 1, FALSE)
    /\ est = NoEstimate

AppTodays == {Ord(2024, 1, 4)}

Init ==
    \E fs \in {"ok", "missing", "unreadable"}, cols \in ColumnSets, t \in AppTodays :
        \E d \in SeqsUpTo(RowsFor(cols), MaxRows) :
            /\ fs # "ok" => (d = <<>> /\ cols = {"price", "city", "room_type"})
            /\ FirstRun(fs, d, cols, t)

\* the dataset of the spec's scenarios, every day of 2024 and 2025 as today
ScenarioData ==
    << [city |-> "A", room_type |-> "Entire home", price |-> 100],
       [city |-> "A", room_type |-> "Private room", price |-> 50],
       [city |-> "B", room_type |-> "Entire home", price |-> 200] >>

InitCal ==
    \E t \in Ord(2024, 1, 1)..(Ord(2024, 1, 1) + CalDays - 1) :
        FirstRun("ok", ScenarioData, {"price", "city", "room_type"}, t)

\* --------------------------------------------------------------- actions
Offered(e) == e \in Range(rendered)

SelectCity ==
    /\ Offered("select_city")
    /\ \E c \in Range(CityOptions(df)) :
          /\ c # city_val
          /\ Run(c, room_type_val, check_in, check_out, FALSE)

SelectRoomType ==
    /\ Offered("select_room_type")
    /\ \E r \in Range(RoomTypeOptions(df)) :
          /\ r # room_type_val
          /\ Run(city_val, r, check_in, check_out, FALSE)

\* a new check-in date changes the default of the check-out widget,
\* which is thereby created anew with that default
SetCheckIn ==
    /\ Offered("date_check_in")
    /\ \E d \in today..(today + MaxShift) :
          /\ d # check_in
          /\ Run(city_val, room_type_val, d, d + 1, FALSE)

SetCheckOut ==
    /\ Offered("date_check_out")
    /\ \E d \in (check_in - 1)..(check_in + MaxNights) :
          /\ d # check_out
          /\ Run(city_val, room_type_val, check_in, d, FALSE)

PressButton ==
    /\ Offered("button")
    /\ Run(city_val, room_type_val, check_in, check_out, TRUE)

\* a rerun without an interaction (the R key): the button reads False
Rerun ==
    /\ button
    /\ Run(city_val, room_type_val, check_in, check_out, FALSE)

Next ==
    \/ SelectCity
    \/ SelectRoomType
    \/ SetCheckIn
    \/ SetCheckOut
    \/ PressButton
    \/ Rerun

Spec == Init /\ [][Next]_vars

SpecCal == InitCal /\ [][Next]_vars

\* ================================================================ claims
Shown(e) == e \in Range(rendered)

\* the rows of df with the selected city and room type / the selected city
ExactRows == {i \in 1..Len(df) : df[i].city = city_val /\ df[i].room_type = room_type_val}

CityRows == {i \in 1..Len(df) : df[i].city = city_val}

AllRows == 1..Len(df)

FirstNonEmpty ==
    IF ExactRows # {} THEN ExactRows
    ELSE IF CityRows # {} THEN CityRows
    ELSE AllRows

\* the k-th smallest price among the rows I, by counting
KthSmallest(I, k) ==
    CHOOSE v \in {df[i].price : i \in I} :
        /\ Cardinality({i \in I : df[i].price < v}) < k
        /\ k <= Cardinality({i \in I : df[i].price <= v})

\* twice the median of the prices of the rows I (midpoint when even)
TwiceMedianOf(I) ==
    LET n == Cardinality(I)
    IN  KthSmallest(I, (n + 1) \div 2) + KthSmallest(I, n \div 2 + 1)

\* C1: with a non-empty dataset, the base price of every estimate is the
\* median of the first non-empty subset among (city and room type), (city),
\* (whole dataset); the midpoint of the two middle prices when the count is
\* even, so that prices {100, 50} give 75.
C1_BasePriceFallback ==
    (est.shown /\ Len(df) > 0) =>
        /\ ~est.base_nan
        /\ est.base_twice = TwiceMedianOf(FirstNonEmpty)
        /\ (ExactRows = {} /\ CityRows # {}) => est.base_twice = TwiceMedianOf(CityRows)
        /\ CityRows = {} => est.base_twice = TwiceMedianOf(AllRows)
        /\ (Cardinality(FirstNonEmpty) = 2
              /\ {df[i].price : i \in FirstNonEmpty} = {50, 100})
           => est.base_twice = 2 * 75

\* the city-only fallback was taken and its median is not the global median
C1_Witness ==
    /\ est.shown
    /\ ExactRows = {}
    /\ CityRows # {}
    /\ est.base_twice = TwiceMedianOf(CityRows)
    /\ est.base_twice # TwiceMedianOf(AllRows)

\* C2: while check_out <= check_in the warning is shown, the trigger is not
\* offered and no estimate is computed or displayed; an estimate exists only
\* in a run with check_out > check_in that the trigger started.
C2_InvalidRangeWithheld ==
    /\ (Shown("date_check_out") /\ check_out <= check_in) =>
          /\ Shown("warning_dates")
          /\ ~Shown("button")
          /\ ~Shown("success_estimate")
          /\ ~est.shown
    /\ (est.shown \/ Shown("success_estimate")) =>
          /\ check_out > check_in
          /\ button
          /\ Shown("button")
          /\ ~Shown("warning_dates")

\* the same day was picked for check-in and check-out
C2_Witness ==
    /\ check_out = check_in
    /\ Shown("warning_dates")
    /\ ~Shown("button")

\* the day of the week counted from a known Monday, 2024-01-01
DayFromMonday(d) == (d - Ord(2024, 1, 1)) % 7

IsFriOrSat(d) == DayFromMonday(d) = 4 \/ DayFromMonday(d) = 5

\* d lies in month m of some year of the calendar under test
InMonth(d, m) ==
    \E y \in 2023..2027 :
        /\ Ord(y, m, 1) <= d
        /\ d < (IF m = 12 THEN Ord(y + 1, 1, 1) ELSE Ord(y, m + 1, 1))

\* the claimed product, in hundredths (the product of the three factors in
\* hundredths is a multiple of 10000 in every case)
ClaimedMultiplier(d) ==
    ((IF IsFriOrSat(d) THEN 130 ELSE 100)
       * (IF InMonth(d, 6) \/ InMonth(d, 7) \/ InMonth(d, 8) THEN 120 ELSE 100)
       * (IF InMonth(d, 12) THEN 140 ELSE 100)) \div 10000

\* C3: the multiplier of every night d is the product of 1.30 (Friday or
\* Saturday), 1.20 (June to August) and 1.40 (December), each applied iff
\* its condition holds; a plain weekday gives 1.0 and the base price, a
\* Friday in July 1.56, a December Saturday 1.82, a Sunday no weekend factor.
C3_NightMultiplier ==
    est.shown =>
        /\ \A i \in 1..Len(est.mults) :
              est.mults[i] = ClaimedMultiplier(check_in + i - 1)
        /\ (check_in = Ord(2024, 1, 2) /\ check_out = check_in + 1) =>
              /\ est.mults = <<100>>
              /\ 2 * est.price_num = est.base_twice * est.price_den
        /\ (check_in = Ord(2024, 7, 5) /\ check_out = check_in + 1) =>
              est.mults = <<156>>
        /\ (check_in = Ord(2024, 12, 7) /\ check_out = check_in + 1) =>
              est.mults = <<182>>
        /\ \A i \in 1..Len(est.mults) :
              (DayFromMonday(check_in + i - 1) = 6 /\ ~InMonth(check_in + i - 1, 12)
                 /\ \A m \in {6, 7, 8} : ~InMonth(check_in + i - 1, m))
              => est.mults[i] = 100

\* a one-night stay on Saturday 2024-12-07
C3_Witness ==
    /\ est.shown
    /\ check_in = Ord(2024, 12, 7)
    /\ check_out = check_in + 1
    /\ est.mults = <<182>>

RECURSIVE SumClaimed(_)
SumClaimed(D) ==
    IF D = {} THEN 0
    ELSE LET d == CHOOSE x \in D : TRUE
         IN  ClaimedMultiplier(d) + SumClaimed(D \ {d})

\* C4: the effective multiplier is the mean of the multipliers of the dates
\* check_in .. check_out - 1, each once, the check-out date excluded, and
\* the price per night is the base price times that mean; Thursday plus
\* Friday in January give 1.15, and a one-night stay checking out on a
\* Friday or Saturday has no weekend factor.
C4_MeanOverNights ==
    est.shown =>
        LET Nights == check_in..(check_out - 1)
        IN  /\ est.avg_num * Cardinality(Nights) * 100
                 = est.avg_den * SumClaimed(Nights)
            /\ est.price_num * 2 * est.avg_den
                 = est.base_twice * est.avg_num * est.price_den
            /\ (check_in = Ord(2024, 1, 4) /\ check_out = check_in + 2) =>
                  est.avg_num * 100 = 115 * est.avg_den
            /\ (check_out = check_in + 1 /\ IsFriOrSat(check_out)
                  /\ ~IsFriOrSat(check_in) /\ InMonth(check_in, 1)) =>
                  est.avg_num = est.avg_den

\* a two-night stay with one weekend night and one plain night
C4_Witness ==
    /\ est.shown
    /\ check_out = check_in + 2
    /\ est.mults = <<100, 130>>
    /\ est.avg_num * 100 = 115 * est.avg_den

ErrorElements == {LoadError("missing"), LoadError("unreadable")}

\* C5: a run over a dataset with zero rows reports an error, renders no
\* chart from the undefined price cap and displays no estimate whose base
\* price is undefined.
C5_EmptyDatasetReported ==
    (fileState = "ok" /\ Len(df) = 0) =>
        /\ \E e \in ErrorElements : Shown(e)
        /\ ~(Shown("chart_price_hist") /\ price_cap(df).nan)
        /\ ~(Shown("success_estimate") /\ est.base_nan)

\* C6 as stated: when the load fails nothing but the error report is rendered
C6_OnlyErrorRendered ==
    fileState # "ok" => rendered = <<LoadError(fileState)>>

\* C6: when the load fails, the run renders the page title, then the error
\* report (naming the path when the file is missing) and halts: no summary,
\* table, chart, estimator control or estimate.
C6_TitleThenErrorThenHalt ==
    fileState # "ok" =>
        /\ rendered = <<"title", LoadError(fileState)>>
        /\ fileState = "missing" =>
              rendered[2] = "error: Could not find 'cleaned_data.csv'"
        /\ ~est.shown
        /\ \A e \in {"row_summary", "table_preview", "chart_price_hist",
                     "chart_room_bar", "chart_room_pie", "chart_city_bar",
                     "select_city", "select_room_type", "date_check_in",
                     "date_check_out", "button", "success_estimate"} : ~Shown(e)

\* the file is missing and the run has stopped at the error
C6_Witness ==
    /\ fileState = "missing"
    /\ Len(rendered) = 2
    /\ Shown(LoadError("missing"))

PredictorControls ==
    {"select_city", "select_room_type", "date_check_in", "date_check_out",
     "warning_dates", "button", "success_estimate"}

\* C7: without the city or the room_type column the run is not fatal: the
\* charts on the missing column are replaced by an informational message,
\* the estimator section is replaced by one and can not be triggered, and
\* the histogram and the charts on the column that is present are rendered.
C7_MissingColumnsDegrade ==
    fileState = "ok" =>
        /\ \A e \in ErrorElements : ~Shown(e)
        /\ Shown("row_summary") /\ Shown("table_preview") /\ Shown("chart_price_hist")
        /\ "room_type" \notin columns =>
              /\ ~Shown("chart_room_bar") /\ ~Shown("chart_room_pie")
              /\ Shown("info_room_type")
        /\ "city" \notin columns =>
              /\ ~Shown("chart_city_bar")
              /\ Shown("info_city")
        /\ ("city" \notin columns \/ "room_type" \notin columns) =>
              /\ Shown("info_predictor")
              /\ \A e \in PredictorControls : ~Shown(e)
              /\ ~est.shown /\ ~button
        /\ "room_type" \in columns => Shown("chart_room_bar") /\ Shown("chart_room_pie")
        /\ "city" \in columns => Shown("chart_city_bar")

\* room_type is missing, city is present
C7_Witness ==
    /\ fileState = "ok"
    /\ columns = {"price", "city"}
    /\ Len(df) > 0
    /\ Shown("info_room_type")
    /\ Shown("chart_city_bar")
    /\ Shown("info_predictor")

\* C8: over a non-empty dataset of non-negative prices every estimate is a
\* number >= 0.
C8_EstimateNonNegative ==
    (est.shown /\ Len(df) > 0 /\ \A i \in 1..Len(df) : df[i].price >= 0) =>
        /\ ~est.base_nan
        /\ est.price_den > 0
        /\ est.price_num >= 0

\* an estimate over an even-count subset of different prices
C8_Witness ==
    /\ est.shown
    /\ Cardinality(FirstNonEmpty) = 2
    /\ {df[i].price : i \in FirstNonEmpty} = {50, 100}
    /\ est.price_num > 0

\* C9: whenever the estimator computes, nights = check_out - check_in >= 1
\* is the number of multipliers averaged, the zero-night branch is not
\* taken, the average multiplier is within [1.0, 1.82] and the estimate is
\* not below the base price.
C9_NightsAndRange ==
    est.shown =>
        /\ est.nights = check_out - check_in
        /\ est.nights >= 1
        /\ Len(est.mults) = est.nights
        /\ est.avg_den = Unit * est.nights
        /\ ~est.zero_branch
        /\ est.avg_num >= est.avg_den
        /\ est.avg_num * 100 <= 182 * est.avg_den
        /\ ~est.base_nan => est.price_num * 2 >= est.base_twice * est.price_den

\* a stay of several nights whose average lies strictly above 1.0
C9_Witness ==
    /\ est.shown
    /\ est.nights = MaxNights
    /\ est.avg_num > est.avg_den
    /\ est.price_num * 2 > est.base_twice * est.price_den

HasCity == \E i \in 1..Len(df) : df[i].city # NaN

\* C10: the selected city is always one of the dataset's non-missing
\* cities, so an estimate over a dataset with such a city finds city rows
\* and never takes the whole-dataset step; that step is taken only when the
\* dataset has no non-missing city.
C10_SelectedCityMatches ==
    /\ (Shown("select_city") /\ HasCity) => CityRows # {}
    /\ (est.shown /\ HasCity) => est.step \in {1, 2}
    /\ (est.shown /\ est.step = 3) => ~HasCity

\* an estimate by the city-only step over a dataset that also has a row
\* with a missing city
C10_Witness ==
    /\ est.shown
    /\ est.step = 2
    /\ \E i \in 1..Len(df) : df[i].city = NaN

====
